---- MODULE Spec2Model ----
(***************************************************************************)
(* A model of the building-block registry client (ogc.bblocks):            *)
(*   register.py         the registry resolver, the per-registry caches    *)
(*                       and the summary / full-record lookups             *)
(*   semantic_uplift.py  the JSON-LD context merge and the uplift pipeline *)
(* URLs are numbers, registry instances are positions in the heap regs,    *)
(* and 0 stands for Python's None.                                         *)
(***************************************************************************)
EXTENDS Integers, Sequences, FiniteSets, TLC

\* ------------------------------------------------------------------ bounds
NumRegs == 3
MaxImports == 3
MaxEdges == 3
\* the lookups and the caches are explored over the graphs of fewer entries
MaxEdgesLookup == 2
NumIds == 1
NumResUrls == 2
MaxCalls == 2

Urls == 1..NumRegs
\* item identifiers; QueryIds holds one more, which no registry has
Ids == 1..NumIds
QueryIds == 1..(NumIds + 1)
\* the URLs of schemas and contexts
ResUrls == 1..NumResUrls

None == 0
EmptyString == -1
NoSummary == <<>>
NoData == <<>>

VARIABLES
    docs,       \* the remote registry documents: url -> [imports, bblocks]
    call,       \* the arguments of the top-level load_register call
    pc,         \* "idle" | "loading" | "done" | "failed"
    stack,      \* the activation records of _load_register, innermost last
    regs,       \* the heap of BuildingBlockRegister instances
    seen,       \* _seen_registers: url -> instance (None when absent)
    fetchLog,   \* the invocations of yaml_loader, in order
    result,     \* the instance load_register returned (None before)
    fulls,      \* the heap of BuildingBlock instances
    ret,        \* the last call on the loaded graph and what it returned
    ncalls,     \* the number of calls made on the loaded graph
    objs,       \* the heap of JSON objects (dicts and lists)
    margs,      \* the arguments of _apply_jsonld_context and the heap before
    mret,       \* what _apply_jsonld_context returned (NoValue before)
    up          \* the uplift_json call under way, or the last one

vars == <<docs, call, pc, stack, regs, seen, fetchLog, result, fulls, ret, ncalls,
          objs, margs, mret, up>>

loadVars == <<docs, call, pc, stack, seen, result>>
mergeVars == <<objs, margs, mret>>
\* what the calls on the registry graph leave alone
otherVars == <<mergeVars, up>>

\* ------------------------------------------------------------ the documents
\* Import lists of at most m URLs, duplicates and self-imports included.
ImportLists(m) == UNION {[1..k -> Urls] : k \in 0..m}

Min(a, b) == IF a <= b THEN a ELSE b

\* The import graphs over k registries holding at most e import entries in all.
RECURSIVE Graphs(_, _)
Graphs(k, e) ==
    IF k = 0 THEN {<<>>}
    ELSE UNION {{Append(g, l) : g \in Graphs(k - 1, e - Len(l))} :
                l \in ImportLists(Min(MaxImports, e))}

\* A registry document: its imports and its items, each item with the
\* full-record document its json-full documentation entry points to.
\* status and itemClass are the items' enumerated fields (NoEnum when the
\* key is missing).
NoEnum == "absent"
RegisterDocWith(imports, items, full, status, item_class) ==
    [imports |-> imports,
     bblocks |-> [id \in items |->
                     [full |-> full, status |-> status, item_class |-> item_class]]]
RegisterDoc(imports, items, full) == RegisterDocWith(imports, items, full, NoEnum, NoEnum)

\* A full-record document: its semanticUplift.additionalSteps, ldContext,
\* status and itemClass.
FullDocWith(steps, ld_context, status, item_class) ==
    [steps |-> steps, ld_context |-> ld_context,
     status |-> status, item_class |-> item_class]
FullDoc(steps, ld_context) == FullDocWith(steps, ld_context, NoEnum, NoEnum)
PlainDoc == FullDoc(<<>>, None)

\* The closed sets of the enumerations.
StatusValues ==
    {"retired", "superseded", "experimental", "stable", "under-development",
     "invalid", "reserved", "submitted"}
ItemClassValues ==
    {"schema", "datatype", "path", "parameter", "header", "cookie", "response",
     "api", "model"}
StageValues == {"pre", "post"}

\* dacite's cast of a field value to its Enum: Enum(value) raises ValueError
\* for a value outside the set; a missing Optional field stays None.
CastOkAny(values, v) == TRUE
CastOk(values, v) == v = NoEnum \/ v \in values

\* dacite.from_dict(BuildingBlockSummary, ...) returns for the item.
ValidSummary(item) ==
    /\ CastOk(StatusValues, item.status)
    /\ CastOk(ItemClassValues, item.item_class)

\* Every item of the registry document can be built.
ValidRegisterDoc(doc) == \A id \in DOMAIN doc.bblocks : ValidSummary(doc.bblocks[id])

\* dacite.from_dict(BuildingBlock, ...) returns for the document: status,
\* item_class and every step's stage are cast, a step's type is a str.
ValidFullDoc(doc) ==
    /\ CastOk(StatusValues, doc.status)
    /\ CastOk(ItemClassValues, doc.item_class)
    /\ \A k \in 1..Len(doc.steps) :
          doc.steps[k].stage # NoEnum /\ CastOk(StageValues, doc.steps[k].stage)

\* One invocation of yaml_loader: for a registry document (url), for a schema
\* or context (url, through the loader of registry instance via), or for the
\* full-record document of item id of the registry at url.
FetchedRegister(url) == [kind |-> "register", via |-> None, url |-> url, id |-> None]
FetchedResource(via, url) == [kind |-> "resource", via |-> via, url |-> url, id |-> None]
FetchedBBlock(via, url, id) == [kind |-> "bblock", via |-> via, url |-> url, id |-> id]

\* What yaml_loader returns for a schema or context URL; the document at
\* URL 1 is empty (falsy in Python).
ResourceData(url) == <<"yaml", url>>
IsFalsy(data) == data = NoData \/ data = ResourceData(1)

\* ------------------------------------------------------- register.py: load
\* BuildingBlockSummary as dacite builds it from one item of the document,
\* with its back-reference.
NewSummary(id, register, url, item) ==
    [item_identifier |-> id, source_register |-> register,
     json_full |-> [url |-> url, id |-> id],
     status |-> item.status, item_class |-> item.item_class]

\* BuildingBlockRegister as dacite builds it from the fetched document; the
\* instance is at position id of the heap.
NewRegister(url, doc, id, yaml_loader) ==
    [url |-> url, yaml_loader |-> yaml_loader,
     imports |-> doc.imports, imported_registers |-> <<>>,
     bblocks |-> [b \in DOMAIN doc.bblocks |-> NewSummary(b, id, url, doc.bblocks[b])],
     bblocks_cache |-> <<>>, url_cache |-> <<>>]

\* The loaders: fetch_yaml, the default of the yaml_loader parameters and of
\* the registry's field, and a function of the caller.
DefaultLoader == "fetch_yaml"
Loaders == {DefaultLoader, "custom"}

\* No load_register call was made yet.
NoLoad == [url |-> None, deps |-> TRUE, yaml_loader |-> DefaultLoader]

\* One activation of _load_register.
NewFrame(url, deps, yaml_loader) ==
    [url |-> url, deps |-> deps, yaml_loader |-> yaml_loader, phase |-> "fetch", reg |-> None,
     i |-> 1, imported_urls |-> {}]

RecursionLimit == NumRegs + 1

\* _seen_registers[url] = register
SeenRecordForgotten(table, url, id) == table
SeenRecord(table, url, id) == [table EXCEPT ![url] = id]

\* _seen_registers.get(import_url)
SeenLookupNever(table, import_url) == None
SeenLookup(table, import_url) == table[import_url]

\* The inner loop: every registry of the imported registry's (already
\* flattened) list that is not yet in imported_urls is appended.
RECURSIVE FlattenInto(_, _, _, _)
FlattenInto(heap, list, urls, rest) ==
    IF rest = <<>> THEN [list |-> list, urls |-> urls]
    ELSE LET x == Head(rest) IN
         IF heap[x].url \notin urls
         THEN FlattenInto(heap, Append(list, x), urls \cup {heap[x].url}, Tail(rest))
         ELSE FlattenInto(heap, list, urls, Tail(rest))

\* register.imported_registers.append(imported_register) and the inner loop.
AppendImportedNoDedup(heap, r, imported_register, urls) ==
    [list |-> Append(heap[r].imported_registers, imported_register)
                 \o heap[imported_register].imported_registers,
     urls |-> urls \cup {heap[x].url : x \in
                  {heap[imported_register].imported_registers[k] :
                      k \in 1..Len(heap[imported_register].imported_registers)}}]
AppendImported(heap, r, imported_register, urls) ==
    FlattenInto(heap, Append(heap[r].imported_registers, imported_register),
                urls, heap[imported_register].imported_registers)

Top == stack[Len(stack)]
SetTop(f) == [stack EXCEPT ![Len(stack)] = f]

\* load_register(url, load_dependencies, yaml_loader)
load_register(url, deps, yaml_loader) ==
    /\ pc = "idle"
    /\ call' = [url |-> url, deps |-> deps, yaml_loader |-> yaml_loader]
    /\ stack' = <<NewFrame(url, deps, yaml_loader)>>
    /\ pc' = "loading"
    /\ UNCHANGED <<docs, regs, seen, fetchLog, result, fulls, ret, ncalls, otherVars>>

\* An exception leaves _load_register: no frame catches it, so it leaves
\* every activation and load_register.
LoadRaisesSwallowed(error, url) ==
    /\ pc' = IF Len(stack) = 1 THEN "failed" ELSE pc
    /\ stack' = IF Len(stack) = 1 THEN <<>>
                ELSE Append(SubSeq(stack, 1, Len(stack) - 2),
                            [stack[Len(stack) - 1] EXCEPT !.i = @ + 1])
    /\ ret' = [op |-> "load", raised |-> error, url |-> url]
LoadRaises(error, url) ==
    /\ pc' = "failed"
    /\ stack' = <<>>
    /\ ret' = [op |-> "load", raised |-> error, url |-> url]

\* _load_register up to the import loop: fetch, construct, record as seen;
\* the construction raises when an item's enumerated field cannot be cast.
LoadFetch ==
    /\ pc = "loading"
    /\ Top.phase = "fetch"
    /\ LET url == Top.url
           id == Len(regs) + 1
       IN /\ fetchLog' = Append(fetchLog, FetchedRegister(url))
          /\ IF ValidRegisterDoc(docs[url])
             THEN /\ regs' = Append(regs, NewRegister(url, docs[url], id, Top.yaml_loader))
                  /\ seen' = SeenRecord(seen, url, id)
                  /\ stack' = SetTop([Top EXCEPT !.phase = "loop", !.reg = id,
                                                 !.imported_urls = {url}])
                  /\ UNCHANGED <<pc, ret>>
             ELSE /\ LoadRaises("ValueError", url)
                  /\ UNCHANGED <<regs, seen>>
    /\ UNCHANGED <<docs, call, result, fulls, ncalls, otherVars>>

InLoop ==
    /\ pc = "loading"
    /\ Top.phase = "loop"
    /\ Top.deps
    /\ Top.i <= Len(regs[Top.reg].imports)

ImportUrl == regs[Top.reg].imports[Top.i]

\* if import_url in imported_urls: continue
LoopSkip ==
    /\ InLoop
    /\ ImportUrl \in Top.imported_urls
    /\ stack' = SetTop([Top EXCEPT !.i = @ + 1])
    /\ UNCHANGED <<docs, call, pc, regs, seen, fetchLog, result, fulls, ret, ncalls, otherVars>>

\* The import is in _seen_registers: it is appended as it is now.
LoopSeen ==
    /\ InLoop
    /\ ImportUrl \notin Top.imported_urls
    /\ SeenLookup(seen, ImportUrl) # None
    /\ LET got == AppendImported(regs, Top.reg, SeenLookup(seen, ImportUrl),
                                 Top.imported_urls \cup {ImportUrl})
       IN /\ regs' = [regs EXCEPT ![Top.reg].imported_registers = got.list]
          /\ stack' = SetTop([Top EXCEPT !.i = @ + 1, !.imported_urls = got.urls])
    /\ UNCHANGED <<docs, call, pc, seen, fetchLog, result, fulls, ret, ncalls, otherVars>>

\* The import is new: the recursive call, made with load_dependencies and
\* _seen_registers only, so that its yaml_loader is the default.
LoopRecurse ==
    /\ InLoop
    /\ ImportUrl \notin Top.imported_urls
    /\ SeenLookup(seen, ImportUrl) = None
    /\ Len(stack) < RecursionLimit
    /\ stack' = Append(SetTop([Top EXCEPT !.imported_urls = @ \cup {ImportUrl}]),
                       NewFrame(ImportUrl, TRUE, DefaultLoader))
    /\ UNCHANGED <<docs, call, pc, regs, seen, fetchLog, result, fulls, ret, ncalls, otherVars>>

\* return register: to the caller's loop, or to load_register's caller.
LoadReturn ==
    /\ pc = "loading"
    /\ Top.phase = "loop"
    /\ ~(Top.deps /\ Top.i <= Len(regs[Top.reg].imports))
    /\ IF Len(stack) = 1
       THEN /\ result' = Top.reg
            /\ pc' = "done"
            /\ stack' = <<>>
            /\ UNCHANGED regs
       ELSE LET parent == stack[Len(stack) - 1]
                got == AppendImported(regs, parent.reg, Top.reg, parent.imported_urls)
            IN /\ regs' = [regs EXCEPT ![parent.reg].imported_registers = got.list]
               /\ stack' = Append(SubSeq(stack, 1, Len(stack) - 2),
                                  [parent EXCEPT !.i = @ + 1,
                                                 !.imported_urls = got.urls])
               /\ UNCHANGED <<pc, result>>
    /\ UNCHANGED <<docs, call, seen, fetchLog, fulls, ret, ncalls, otherVars>>

NoCall == [op |-> "none"]
NoValue == <<"none">>

\* No uplift_json call was made yet.
UpIdle ==
    [pc |-> "idle", asFull |-> FALSE, r |-> None, id |-> None, bblock |-> None,
     ld_context |-> NoData, store |-> <<>>, cur |-> None, merged |-> None,
     i |-> 1, trace |-> <<>>, error |-> "none", out |-> None]

\* No context merge and no uplift is under way.
MergeIdle ==
    /\ objs = <<>>
    /\ margs = [ld_context |-> NoValue, data |-> NoValue, before |-> <<>>]
    /\ mret = NoValue
    /\ up = UpIdle

InitLoad ==
    /\ MergeIdle
    /\ docs \in {[u \in Urls |-> RegisterDoc(g[u], {}, PlainDoc)] : g \in Graphs(NumRegs, MaxEdges)}
    /\ fulls = <<>>
    /\ ret = NoCall
    /\ ncalls = 0
    /\ call = NoLoad
    /\ pc = "idle"
    /\ stack = <<>>
    /\ regs = <<>>
    /\ seen = [u \in Urls |-> None]
    /\ fetchLog = <<>>
    /\ result = None

NextLoad ==
    \/ \E url \in Urls, deps \in BOOLEAN : load_register(url, deps, DefaultLoader)
    \/ LoadFetch
    \/ LoopSkip
    \/ LoopSeen
    \/ LoopRecurse
    \/ LoadReturn

SpecLoad == InitLoad /\ [][NextLoad]_vars /\ WF_vars(NextLoad)

\* ------------------------------------------- register.py: the two caches
\* if url in cache
CacheHitTruthy(cache, url) == url \in DOMAIN cache /\ ~IsFalsy(cache[url])
CacheHit(cache, url) == url \in DOMAIN cache

\* BuildingBlockSummary._get_cached_yaml, self a record of registry r: the
\* heap and the log after the call, and the value returned.
GetCachedYaml(heap, log, r, url) ==
    IF url = None \/ url = EmptyString
    THEN [regs |-> heap, log |-> log, value |-> NoData]
    ELSE IF CacheHit(heap[r].url_cache, url)
    THEN [regs |-> heap, log |-> log, value |-> heap[r].url_cache[url]]
    ELSE LET data == ResourceData(url)
         IN [regs |-> [heap EXCEPT ![r].url_cache = (url :> data) @@ @],
             log |-> Append(log, FetchedResource(r, url)),
             value |-> data]

\* The schema field of a record: media type -> URL.
MediaTypes == {"application/yaml", "application/json"}
SchemaDicts == UNION {[m -> ResUrls] : m \in SUBSET MediaTypes}

\* The URL resolved_schema resolves: the YAML entry, else the JSON entry,
\* None for an empty schema.
SchemaUrl(schema) ==
    IF DOMAIN schema = {} THEN None
    ELSE IF "application/yaml" \in DOMAIN schema THEN schema["application/yaml"]
    ELSE IF "application/json" \in DOMAIN schema THEN schema["application/json"]
    ELSE None

\* The registries get_item_summary searches, in order: self, then
\* imported_registers as stored.
SearchOrderImportsFirst(heap, r) == heap[r].imported_registers \o <<r>>
SearchOrder(heap, r) == <<r>> \o heap[r].imported_registers

\* The first registry of the list whose bblocks has the identifier.
RECURSIVE FirstHolder(_, _, _)
FirstHolder(heap, list, identifier) ==
    IF list = <<>> THEN NoSummary
    ELSE IF identifier \in DOMAIN heap[Head(list)].bblocks
    THEN <<Head(list), identifier>>
    ELSE FirstHolder(heap, Tail(list), identifier)

\* BuildingBlockRegister.get_item_summary: the record found, as <<the
\* registry instance whose bblocks holds it, its key>>, or NoSummary.
GetItemSummary(heap, r, identifier) ==
    FirstHolder(heap, SearchOrder(heap, r), identifier)

SummaryAt(heap, ref) == heap[ref[1]].bblocks[ref[2]]

\* _bblocks_cache.get(identifier)
FullCacheGetMiss(cache, identifier) == None
FullCacheGet(cache, identifier) ==
    IF identifier \in DOMAIN cache THEN cache[identifier] ELSE None

\* summary.source_register: the registry whose _bblocks_cache is used by
\* get_item_full called on registry r.
CacheOwnerCalledOn(r, summary) == r
CacheOwner(r, summary) == summary.source_register

\* BuildingBlock as dacite builds it from the full-record document, with
\* its summary and its back-reference set.
NewBuildingBlockNoBackref(doc, identifier, ref, owner) ==
    [item_identifier |-> identifier, summary |-> ref, source_register |-> None,
     semantic_uplift |-> doc.steps, ld_context |-> doc.ld_context,
     status |-> doc.status, item_class |-> doc.item_class]
NewBuildingBlock(doc, identifier, ref, owner) ==
    [item_identifier |-> identifier, summary |-> ref, source_register |-> owner,
     semantic_uplift |-> doc.steps, ld_context |-> doc.ld_context,
     status |-> doc.status, item_class |-> doc.item_class]

\* BuildingBlockRegister.get_item_full on registry r: the heaps and the log
\* after the call, the BuildingBlock instance returned (None when the
\* identifier resolves to no summary), and the exception raised instead
\* ("none" when the call returned).
GetItemFull(heap, fheap, log, r, identifier) ==
    LET ref == GetItemSummary(heap, r, identifier) IN
    IF ref = NoSummary
    THEN [regs |-> heap, fulls |-> fheap, log |-> log, value |-> None,
          raised |-> "none"]
    ELSE LET summary == SummaryAt(heap, ref)
             owner == CacheOwner(r, summary)
             bblock == FullCacheGet(heap[owner].bblocks_cache, identifier)
         IN IF bblock # None
            THEN [regs |-> heap, fulls |-> fheap, log |-> log, value |-> bblock,
                  raised |-> "none"]
            ELSE LET doc == docs[summary.json_full.url].bblocks[summary.json_full.id].full
                     new == Len(fheap) + 1
                     fetched == Append(log, FetchedBBlock(r, summary.json_full.url,
                                                          summary.json_full.id))
                 IN IF ValidFullDoc(doc)
                    THEN [regs |-> [heap EXCEPT ![owner].bblocks_cache =
                                                   (identifier :> new) @@ @],
                          fulls |-> Append(fheap,
                                      NewBuildingBlock(doc, identifier, ref, owner)),
                          log |-> fetched,
                          value |-> new,
                          raised |-> "none"]
                    ELSE [regs |-> heap, fulls |-> fheap, log |-> fetched,
                          value |-> None, raised |-> "ValueError"]

\* A call on the loaded graph is possible.
CanCall ==
    /\ pc = "done"
    /\ ncalls < MaxCalls
    /\ up.pc \in {"idle", "done", "failed"}

\* What a resolve call leaves: the registry whose cache it used, the URL,
\* the value, and whether yaml_loader was invoked.
Resolve(r, url) ==
    LET got == GetCachedYaml(regs, fetchLog, r, url)
    IN /\ regs' = got.regs
       /\ fetchLog' = got.log
       /\ ret' = [op |-> "resolve", r |-> r, url |-> url, value |-> got.value,
                  fetched |-> got.log # fetchLog, raised |-> "none"]
       /\ ncalls' = ncalls + 1
       /\ UNCHANGED <<loadVars, fulls, otherVars>>

\* BuildingBlockSummary.resolved_schema on the record of registry r under
\* key id, its schema field being schema.
resolved_schema(r, id, schema) ==
    /\ CanCall
    /\ id \in DOMAIN regs[r].bblocks
    /\ Resolve(regs[r].bblocks[id].source_register, SchemaUrl(schema))

\* BuildingBlockSummary.resolved_ld_context on the record of registry r
\* under key id, its ld_context field being ld_context.
resolved_ld_context(r, id, ld_context) ==
    /\ CanCall
    /\ id \in DOMAIN regs[r].bblocks
    /\ Resolve(regs[r].bblocks[id].source_register, ld_context)

\* BuildingBlockRegister.get_item_summary
get_item_summary(r, identifier) ==
    /\ CanCall
    /\ ret' = [op |-> "summary", r |-> r, id |-> identifier,
               value |-> GetItemSummary(regs, r, identifier), fetched |-> FALSE]
    /\ ncalls' = ncalls + 1
    /\ UNCHANGED <<loadVars, regs, fetchLog, fulls, otherVars>>

\* BuildingBlockRegister.get_item_full
get_item_full(r, identifier) ==
    /\ CanCall
    /\ LET got == GetItemFull(regs, fulls, fetchLog, r, identifier)
       IN /\ regs' = got.regs
          /\ fulls' = got.fulls
          /\ fetchLog' = got.log
          /\ ret' = [op |-> "full", r |-> r, id |-> identifier,
                     value |-> got.value, fetched |-> got.log # fetchLog,
                     raised |-> got.raised]
    /\ ncalls' = ncalls + 1
    /\ UNCHANGED <<loadVars, otherVars>>

\* The loaded graphs the lookups and the caches are explored on: every
\* registry holds any subset of the identifiers.
InitResolve ==
    /\ MergeIdle
    /\ docs \in {[u \in Urls |-> RegisterDoc(g[u], items[u], PlainDoc)] :
                    g \in Graphs(NumRegs, MaxEdgesLookup),
                    items \in [Urls -> SUBSET Ids]}
    /\ fulls = <<>>
    /\ ret = NoCall
    /\ ncalls = 0
    /\ call = NoLoad
    /\ pc = "idle"
    /\ stack = <<>>
    /\ regs = <<>>
    /\ seen = [u \in Urls |-> None]
    /\ fetchLog = <<>>
    /\ result = None

Instances == 1..Len(regs)

NextResolve ==
    \/ NextLoad
    \/ \E r \in Instances, id \in Ids, schema \in SchemaDicts :
          resolved_schema(r, id, schema)
    \/ \E r \in Instances, id \in Ids, url \in ResUrls \cup {None, EmptyString} :
          resolved_ld_context(r, id, url)
    \/ \E r \in Instances, id \in QueryIds : get_item_summary(r, id)
    \/ \E r \in Instances, id \in QueryIds : get_item_full(r, id)

SpecResolve == InitResolve /\ [][NextResolve]_vars /\ WF_vars(NextResolve)

\* ------------------------------------------------ the resolver's properties
Range(s) == {s[k] : k \in 1..Len(s)}
NoDup(s) == \A j, k \in 1..Len(s) : j # k => s[j] # s[k]

\* The registries reachable from u through imports, u included.
RECURSIVE ReachFrom(_, _)
ReachFrom(found, frontier) ==
    IF frontier = {} THEN found
    ELSE LET next == UNION {Range(docs[u].imports) : u \in frontier}
         IN ReachFrom(found \cup frontier, next \ (found \cup frontier))
Reach(u) == ReachFrom({}, {u})

\* The registries u imports, directly or transitively (u itself when u lies
\* on an import cycle).
ImportedBy(u) == UNION {Reach(v) : v \in Range(docs[u].imports)}

\* The URLs of a registry instance's imported_registers, in list order.
ImportedUrls(r) ==
    [k \in 1..Len(regs[r].imported_registers) |-> regs[regs[r].imported_registers[k]].url]

Loaded == pc = "done" /\ call.deps

\* The registry URLs yaml_loader was invoked with, in order.
RegisterFetches ==
    LET regFetches == SelectSeq(fetchLog, LAMBDA e : e.kind = "register")
    IN [k \in 1..Len(regFetches) |-> regFetches[k].url]

\* s lists its elements in the order the traversal first fetched them.
FirstSeenOrder(s) == s = SelectSeq(RegisterFetches, LAMBDA u : u \in Range(s))

\* C1: in one top-level load with load_dependencies, no URL is fetched twice,
\* and when the load returns every registry URL reachable from the root
\* through imports has been fetched (exactly once), and no other.
C1_FetchOncePerReachableUrl ==
    /\ NoDup(RegisterFetches)
    /\ Loaded => Range(RegisterFetches) = Reach(call.url)

\* A finished load of a diamond: three registries, one of them imported by
\* the two others.
C1_Witness ==
    /\ Loaded
    /\ Cardinality(Reach(call.url)) = 3
    /\ \E u \in Urls : \E v, w \in Reach(call.url) :
          v # w /\ u \notin {v, w} /\ u \in Range(docs[v].imports)
                /\ u \in Range(docs[w].imports)

\* C2 as stated: after the load the root's imported_registers holds each
\* registry the root imports, directly or transitively, exactly once, in
\* first-seen order.
C2_Original ==
    Loaded =>
        /\ NoDup(ImportedUrls(result))
        /\ Range(ImportedUrls(result)) = ImportedBy(call.url)
        /\ FirstSeenOrder(ImportedUrls(result))

\* C2 amended: the same of every such registry other than the root itself
\* (the root is left out also when it lies on an import cycle); every entry
\* is the one instance the traversal built for its URL.
C2_ImportedOnceInOrder ==
    Loaded =>
        /\ NoDup(ImportedUrls(result))
        /\ Range(ImportedUrls(result)) = ImportedBy(call.url) \ {call.url}
        /\ FirstSeenOrder(ImportedUrls(result))
        /\ \A x \in Range(regs[result].imported_registers) : seen[regs[x].url] = x

\* A finished load whose root lies on an import cycle and imports two others.
C2_Witness ==
    /\ Loaded
    /\ call.url \in ImportedBy(call.url)
    /\ Len(regs[result].imported_registers) = 2

\* C3 as stated: after the load every registry of the graph lists every other
\* registry reachable from it.
C3_TransitiveClosure ==
    Loaded =>
        \A g \in 1..Len(regs) :
            Reach(regs[g].url) \ {regs[g].url} \subseteq Range(ImportedUrls(g))

\* C4: every load returns.
C4_LoadTerminates == <>(pc = "done")

\* A finished load of a registry that imports itself.
C4_Witness ==
    /\ Loaded
    /\ call.url \in Range(docs[call.url].imports)

\* The call stack never holds two activations for one URL, so the recursion
\* limit is never what stops a call.
StackBounded == Len(stack) <= NumRegs

\* -------------------------------------- the caches' and lookups' properties
\* How often yaml_loader was invoked for URL x through registry r's cache.
ResourceFetches(r, x) ==
    Cardinality({k \in 1..Len(fetchLog) : fetchLog[k] = FetchedResource(r, x)})

\* How often yaml_loader was invoked through registry r for the full-record
\* document of the record ref.
BBlockFetches(r, ref) ==
    Cardinality({k \in 1..Len(fetchLog) :
        fetchLog[k] = FetchedBBlock(r, regs[ref[1]].url, ref[2])})

\* C5: over any sequence of resolve calls, yaml_loader is invoked at most
\* once per registry and concrete URL and never for an absent URL; a resolve
\* of a concrete URL returns that URL's document, fetched by the first
\* lookup and stored (also when it is empty), and a resolve of an absent URL
\* returns nothing without a fetch.
C5_ResolveFetchesOnce ==
    /\ \A r \in Instances, x \in ResUrls : ResourceFetches(r, x) <= 1
    /\ \A k \in 1..Len(fetchLog) :
          fetchLog[k].kind = "resource" => fetchLog[k].url \in ResUrls
    /\ ret.op = "resolve" =>
          IF ret.url \in ResUrls
          THEN /\ ret.value = ResourceData(ret.url)
               /\ ResourceFetches(ret.r, ret.url) = 1
               /\ regs[ret.r].url_cache[ret.url] = ret.value
          ELSE ret.value = NoData /\ ~ret.fetched

\* A later lookup of the empty document returned it from the cache.
C5_Witness ==
    /\ ret.op = "resolve"
    /\ ret.url = 1
    /\ IsFalsy(ret.value)
    /\ ~ret.fetched
    /\ ncalls = 2

\* C6: at most one BuildingBlock instance is ever built for a record, every
\* get_item_full of a resolvable identifier returns the instance of the
\* record the identifier resolves to (so two calls on one registry return
\* the same instance), and the calls on one registry fetch the record's
\* full-record document at most once.
C6_FullIsCached ==
    /\ \A i, j \in 1..Len(fulls) : i # j => fulls[i].summary # fulls[j].summary
    /\ \A r \in Instances, id \in Ids :
          GetItemSummary(regs, r, id) # NoSummary =>
              BBlockFetches(r, GetItemSummary(regs, r, id)) <= 1
    /\ (ret.op = "full" /\ GetItemSummary(regs, ret.r, ret.id) # NoSummary) =>
          /\ ret.value \in 1..Len(fulls)
          /\ fulls[ret.value].summary = GetItemSummary(regs, ret.r, ret.id)

\* A second get_item_full returned the cached instance without a fetch.
C6_Witness ==
    /\ ret.op = "full"
    /\ ret.value # None
    /\ ~ret.fetched
    /\ ncalls = 2

\* The registries that hold the identifier.
Holders(identifier) == {g \in Instances : identifier \in DOMAIN regs[g].bblocks}

\* C7: get_item_summary returns the local record when the local mapping has
\* the identifier, otherwise the record of the first registry of
\* imported_registers that has it, otherwise nothing; get_item_summary and
\* get_item_full of an identifier found nowhere return nothing and fetch
\* nothing.
C7_SummaryLookupOrder ==
    /\ ret.op = "summary" =>
          LET list == regs[ret.r].imported_registers
              hits == {k \in 1..Len(list) : list[k] \in Holders(ret.id)}
          IN IF ret.r \in Holders(ret.id) THEN ret.value = <<ret.r, ret.id>>
             ELSE IF hits # {}
             THEN ret.value = <<list[CHOOSE k \in hits : \A j \in hits : k <= j], ret.id>>
             ELSE ret.value = NoSummary
    /\ (ret.op \in {"summary", "full"}
          /\ ({ret.r} \cup Range(regs[ret.r].imported_registers)) \cap Holders(ret.id) = {}) =>
          /\ ~ret.fetched
          /\ ret.op = "summary" => ret.value = NoSummary
          /\ ret.op = "full" => ret.value = None

\* A lookup that the local registry cannot answer and both of its two
\* imported registries can.
C7_Witness ==
    /\ ret.op = "summary"
    /\ ret.r \notin Holders(ret.id)
    /\ Len(regs[ret.r].imported_registers) = 2
    /\ Range(regs[ret.r].imported_registers) \subseteq Holders(ret.id)
    /\ ret.value = <<regs[ret.r].imported_registers[1], ret.id>>

\* ---------------------------- semantic_uplift.py: _apply_jsonld_context
\* JSON values are atoms, <<"atom", s>>, or references to objects of the
\* heap, <<"ref", n>>; an object is a dict (its items the <<key, value>>
\* pairs in insertion order) or a list (its items the values).
MaxLen == 2

Atom(s) == <<"atom", s>>
Ref(n) == <<"ref", n>>
IsRef(v) == v[1] = "ref"
Dict(items) == [type |-> "dict", items |-> items]
List(items) == [type |-> "list", items |-> items]

\* isinstance(v, list)
IsList(heap, v) == IsRef(v) /\ heap[v[2]].type = "list"
\* key in d
HasKey(d, key) == \E k \in 1..Len(d.items) : d.items[k][1] = key
\* d[key]
Lookup(d, key) == d.items[CHOOSE k \in 1..Len(d.items) : d.items[k][1] = key][2]
Keys(d) == {d.items[k][1] : k \in 1..Len(d.items)}

\* new_context: the building block's context, then the existing one, its
\* elements when it is a list.
NewContextExistingFirst(heap, ctx, existing) ==
    (IF IsList(heap, existing) THEN heap[existing[2]].items ELSE <<existing>>)
        \o <<ctx>>
NewContext(heap, ctx, existing) ==
    <<ctx>> \o (IF IsList(heap, existing) THEN heap[existing[2]].items
                ELSE <<existing>>)

\* The dict case with an existing context, written the way an in-place
\* update would: the existing list is extended and data itself is returned.
MergeIntoExistingInPlace(heap, ctx, data) ==
    LET d == heap[data[2]]
        existing == Lookup(d, "@context")
        pos == CHOOSE k \in 1..Len(d.items) : d.items[k][1] = "@context"
    IN IF IsList(heap, existing)
       THEN [objs |-> [heap EXCEPT ![existing[2]].items = <<ctx>> \o @],
             value |-> data]
       ELSE [objs |-> Append([heap EXCEPT ![data[2]].items[pos][2] =
                                             Ref(Len(heap) + 1)],
                             List(<<ctx, existing>>)),
             value |-> data]

\* The dict case with an existing context: a new dict of the other items,
\* then a new list for the context, set on the new dict.
MergeIntoExisting(heap, ctx, data) ==
    LET d == heap[data[2]]
        existing == Lookup(d, "@context")
        rest == SelectSeq(d.items, LAMBDA kv : kv[1] # "@context")
        jsonld_data == Len(heap) + 1
        new_context == Len(heap) + 2
    IN [objs |-> heap \o <<Dict(Append(rest, <<"@context", Ref(new_context)>>)),
                           List(NewContext(heap, ctx, existing))>>,
        value |-> Ref(jsonld_data)]

\* _apply_jsonld_context(ld_context, data): the heap after the call and the
\* value returned.
ApplyJsonldContext(heap, ld_context, data) ==
    LET ctx == Lookup(heap[ld_context[2]], "@context")
        d == heap[data[2]]
    IN IF d.type = "list"
       THEN [objs |-> Append(heap, Dict(<<<<"@context", ctx>>, <<"@graph", data>>>>)),
             value |-> Ref(Len(heap) + 1)]
       ELSE IF HasKey(d, "@context")
       THEN MergeIntoExisting(heap, ctx, data)
       ELSE [objs |-> Append(heap, Dict(<<<<"@context", ctx>>>> \o d.items)),
             value |-> Ref(Len(heap) + 1)]

apply_jsonld_context ==
    /\ margs.data # NoValue
    /\ mret = NoValue
    /\ LET got == ApplyJsonldContext(objs, margs.ld_context, margs.data)
       IN /\ objs' = got.objs
          /\ mret' = got.value
    /\ UNCHANGED <<loadVars, regs, fetchLog, fulls, ret, ncalls, margs, up>>

\* The inputs: sequences of at most n elements of S, and the orders in
\* which a dict can hold some of the keys.
SeqsUpTo(S, n) == UNION {[1..k -> S] : k \in 0..n}
DataKeys == {"name", "age", "@context"}
KeyOrders == {s \in SeqsUpTo(DataKeys, Cardinality(DataKeys)) :
                 \A j, k \in 1..Len(s) : j # k => s[j] # s[k]}
ElementAtoms == {Atom("Alice"), Atom("Bob")}
ContextAtoms == {Atom("http://example.org/ctx"), Atom("{age}")}

\* The heaps a call starts from: object 1 is the building block's context
\* when that is a list, object 2 is ld_context, object 3 is the existing
\* context of data when that is a list, object 4 is data.
MergeHeap(bbctx, bblist, existing, exlist, data) ==
    <<List(bblist), Dict(<<<<"@context", bbctx>>>>), List(exlist), data>>

ValueOfKey(key, existing) == IF key = "@context" THEN existing ELSE Atom(key)

MergeInputs ==
    LET bb == {<<Atom("{name}"), <<>>>>}
                 \cup {<<Ref(1), l>> : l \in SeqsUpTo(ContextAtoms, 1)}
        ex == {<<a, <<>>>> : a \in ContextAtoms \cup {Atom("null")}}
                 \cup {<<Ref(3), l>> : l \in SeqsUpTo(ContextAtoms, MaxLen)}
        lists == {MergeHeap(b[1], b[2], Atom("null"), <<>>, List(l)) :
                     b \in bb, l \in SeqsUpTo(ElementAtoms, MaxLen)}
        dicts == {MergeHeap(b[1], b[2], e[1], e[2],
                            Dict([k \in 1..Len(ks) |-> <<ks[k], ValueOfKey(ks[k], e[1])>>])) :
                     b \in bb, e \in ex, ks \in KeyOrders}
    IN lists \cup dicts

InitMerge ==
    /\ up = UpIdle
    /\ objs \in MergeInputs
    /\ margs = [ld_context |-> Ref(2), data |-> Ref(4), before |-> objs]
    /\ mret = NoValue
    /\ docs = [u \in Urls |-> RegisterDoc(<<>>, {}, PlainDoc)]
    /\ fulls = <<>>
    /\ ret = NoCall
    /\ ncalls = 0
    /\ call = NoLoad
    /\ pc = "idle"
    /\ stack = <<>>
    /\ regs = <<>>
    /\ seen = [u \in Urls |-> None]
    /\ fetchLog = <<>>
    /\ result = None

NextMerge == apply_jsonld_context

SpecMerge == InitMerge /\ [][NextMerge]_vars /\ WF_vars(NextMerge)

\* ------------------------------------------- the context merge's properties
\* A value with every reference replaced by the object it refers to; a dict
\* is taken as the set of its <<key, value>> pairs.
RECURSIVE Deep(_, _)
Deep(heap, v) ==
    IF ~IsRef(v) THEN v
    ELSE LET o == heap[v[2]] IN
         IF o.type = "list"
         THEN <<"list", [k \in 1..Len(o.items) |-> Deep(heap, o.items[k])]>>
         ELSE <<"dict", {<<o.items[k][1], Deep(heap, o.items[k][2])>> :
                            k \in 1..Len(o.items)}>>

Merged == mret # NoValue
\* The arguments as they were when the call was made.
DataBefore == margs.before[margs.data[2]]
ContextBefore == Deep(margs.before, Lookup(margs.before[margs.ld_context[2]], "@context"))
ExistingBefore == Lookup(DataBefore, "@context")

\* C8: the merged document is a dict; for a list it has @context = ctx and
\* @graph = the list, elements in order; for a dict without @context it has
\* the dict's keys and values and @context = ctx; for a dict with @context
\* it has the dict's other keys and values and @context = the list of ctx
\* followed by the existing context's elements (a list) or by the existing
\* context itself (anything else).
C8_MergedDocument ==
    Merged =>
      LET out == objs[mret[2]]
          same(k) == Deep(objs, Lookup(out, k)) = Deep(margs.before, Lookup(DataBefore, k))
      IN /\ IsRef(mret)
         /\ out.type = "dict"
         /\ Cardinality(Keys(out)) = Len(out.items)
         /\ IF DataBefore.type = "list"
            THEN /\ Keys(out) = {"@context", "@graph"}
                 /\ Deep(objs, Lookup(out, "@context")) = ContextBefore
                 /\ Deep(objs, Lookup(out, "@graph")) = Deep(margs.before, margs.data)
            ELSE IF ~HasKey(DataBefore, "@context")
            THEN /\ Keys(out) = Keys(DataBefore) \cup {"@context"}
                 /\ \A k \in Keys(DataBefore) : same(k)
                 /\ Deep(objs, Lookup(out, "@context")) = ContextBefore
            ELSE /\ Keys(out) = Keys(DataBefore)
                 /\ \A k \in Keys(DataBefore) \ {"@context"} : same(k)
                 /\ Deep(objs, Lookup(out, "@context")) =
                       <<"list", <<ContextBefore>> \o
                          (IF IsList(margs.before, ExistingBefore)
                           THEN Deep(margs.before, ExistingBefore)[2]
                           ELSE <<Deep(margs.before, ExistingBefore)>>)>>

\* The merge of a dict of three keys whose context is a list of two.
C8_Witness ==
    /\ Merged
    /\ DataBefore.type = "dict"
    /\ Keys(DataBefore) = DataKeys
    /\ IsList(margs.before, ExistingBefore)
    /\ Len(margs.before[ExistingBefore[2]].items) = 2

\* C9: every object that existed when the call was made (data, its existing
\* context list, ld_context) is afterwards what it was before.
C9_InputNotMutated ==
    /\ Len(objs) >= Len(margs.before)
    /\ \A n \in 1..Len(margs.before) : objs[n] = margs.before[n]

\* The merge of a dict with a string context, and of one with a list context.
C9_Witness ==
    /\ Merged
    /\ DataBefore.type = "dict"
    /\ HasKey(DataBefore, "@context")
    /\ \/ ExistingBefore = Atom("http://example.org/ctx") /\ Len(DataBefore.items) = 2
       \/ IsList(margs.before, ExistingBefore)
    /\ Len(objs) = Len(margs.before) + 2

\* ------------------------------------- semantic_uplift.py: uplift_json
MaxSteps == 2
\* the data parameter of uplift_json is object 1 of the call's store
RawData == 1

\* the types the if/elif chain dispatches on
KnownTypesAndOther == {"shacl", "sparql-update", "sparql-construct", "jq", "other"}
KnownTypes == {"shacl", "sparql-update", "sparql-construct", "jq"}
\* The steps of the documents: tree rewrites before the graph exists, graph
\* steps after, a step of an unknown type in either stage; the code inline,
\* or behind a reference.
Step(type, stage, code, ref) == [type |-> type, stage |-> stage, code |-> code, ref |-> ref]
Steps ==
    {Step(t, "pre", c[1], c[2]) :
        t \in {"jq", "other"}, c \in {<<<<"code", "inline", 0>>, None>>, <<NoValue, 2>>}}
    \cup {Step(t, "post", c[1], c[2]) :
        t \in {"shacl", "sparql-update", "sparql-construct", "other"},
        c \in {<<<<"code", "inline", 0>>, None>>, <<NoValue, 2>>}}
Pipelines == SeqsUpTo(Steps, MaxSteps)

\* One invocation of fetch_url for a step's ref.
FetchedCode(url) == [kind |-> "code", via |-> None, url |-> url, id |-> None]
\* if not step_code and step.ref
NeedsFetch(step) == step.code = NoValue /\ step.ref # None
StepCode(step) == IF NeedsFetch(step) THEN <<"code", "ref", step.ref>> ELSE step.code

Ev(name, k) == [ev |-> name, k |-> k]
Op(name, k, code) == [op |-> name, k |-> k, code |-> code]

\* if step.stage == stage
StageMatchesAny(step, stage) == TRUE
StageMatches(step, stage) == step.stage = stage

UpliftStart(asFull, r, id, b) ==
    /\ up' = [UpIdle EXCEPT !.pc = IF asFull THEN "context" ELSE "full",
                            !.asFull = asFull, !.r = r, !.id = id, !.bblock = b,
                            !.store = <<<<Op("raw", 0, NoValue)>>>>, !.cur = RawData]
    /\ ncalls' = ncalls + 1
    /\ UNCHANGED <<loadVars, regs, fetchLog, fulls, ret, mergeVars>>

\* uplift_json called with the summary record of registry r under key id.
uplift_summary(r, id) ==
    /\ CanCall
    /\ id \in DOMAIN regs[r].bblocks
    /\ UpliftStart(FALSE, r, id, None)

\* uplift_json called with a BuildingBlock that get_item_full returned.
uplift_bblock(b) ==
    /\ CanCall
    /\ UpliftStart(TRUE, fulls[b].summary[1], fulls[b].summary[2], b)

\* bblock = bblock.source_register.get_item_full(bblock.item_identifier)
UpliftFull ==
    /\ up.pc = "full"
    /\ LET summary == regs[up.r].bblocks[up.id]
           got == GetItemFull(regs, fulls, fetchLog, summary.source_register,
                              summary.item_identifier)
       IN /\ regs' = got.regs
          /\ fulls' = got.fulls
          /\ fetchLog' = got.log
          /\ up' = IF got.raised = "none"
                   THEN [up EXCEPT !.bblock = got.value, !.pc = "context",
                                   !.trace = Append(@, Ev("full", 0))]
                   ELSE [up EXCEPT !.pc = "failed", !.error = got.raised]
    /\ UNCHANGED <<loadVars, ret, ncalls, mergeVars>>

\* ld_context = bblock.resolved_ld_context
UpliftContext ==
    /\ up.pc = "context"
    /\ LET b == fulls[up.bblock]
           got == GetCachedYaml(regs, fetchLog, b.source_register, b.ld_context)
       IN /\ regs' = got.regs
          /\ fetchLog' = got.log
          /\ up' = [up EXCEPT !.ld_context = got.value, !.pc = "pre", !.i = 1,
                              !.cur = RawData,
                              !.trace = Append(@, Ev("context", 0))]
    /\ UNCHANGED <<loadVars, fulls, ret, ncalls, mergeVars>>

UpliftSteps == fulls[up.bblock].semantic_uplift

\* data = ...: the loop's data after a step that returns a new object.
ReboundDropped(cur, new) == cur
Rebound(cur, new) == new

\* _apply_uplift_steps is at step i of its loop.
InStage ==
    /\ up.pc \in {"pre", "post"}
    /\ up.i <= Len(UpliftSteps)

\* A step of the other stage is passed over.
UpliftSkipStep ==
    /\ InStage
    /\ ~StageMatches(UpliftSteps[up.i], up.pc)
    /\ up' = [up EXCEPT !.i = @ + 1]
    /\ UNCHANGED <<loadVars, regs, fetchLog, fulls, ret, ncalls, mergeVars>>

\* The log after the step's code was fetched, when it is not inline.
CodeFetchedOncePerUrl(step) ==
    IF NeedsFetch(step) /\ FetchedCode(step.ref) \notin Range(fetchLog)
    THEN Append(fetchLog, FetchedCode(step.ref)) ELSE fetchLog
CodeFetched(step) ==
    IF NeedsFetch(step) THEN Append(fetchLog, FetchedCode(step.ref)) ELSE fetchLog

\* A step of a known type is applied to the loop's data: shacl and
\* sparql-update change the object in place, sparql-construct and jq bind
\* the loop's data to a new object.
UpliftApplyStep ==
    /\ InStage
    /\ StageMatches(UpliftSteps[up.i], up.pc)
    /\ UpliftSteps[up.i].type \in KnownTypes
    /\ LET step == UpliftSteps[up.i]
           applied == Op(step.type, up.i, StepCode(step))
       IN /\ fetchLog' = CodeFetched(step)
          /\ up' = IF step.type \in {"shacl", "sparql-update"}
                   THEN [up EXCEPT !.store[up.cur] = Append(@, applied),
                                   !.i = @ + 1,
                                   !.trace = Append(@, Ev(up.pc, up.i))]
                   ELSE [up EXCEPT !.store = Append(@, Append(up.store[up.cur], applied)),
                                   !.cur = Rebound(up.cur, Len(up.store) + 1),
                                   !.i = @ + 1,
                                   !.trace = Append(@, Ev(up.pc, up.i))]
    /\ UNCHANGED <<loadVars, regs, fulls, ret, ncalls, mergeVars>>

\* raise NotImplementedError: the step's type is none of the four.
UpliftStepFails ==
    /\ InStage
    /\ StageMatches(UpliftSteps[up.i], up.pc)
    /\ UpliftSteps[up.i].type \notin KnownTypes
    /\ fetchLog' = CodeFetched(UpliftSteps[up.i])
    /\ up' = [up EXCEPT !.pc = "failed", !.error = "NotImplementedError",
                        !.trace = Append(@, Ev(up.pc, up.i))]
    /\ UNCHANGED <<loadVars, regs, fulls, ret, ncalls, mergeVars>>

\* jsonld_data = _apply_jsonld_context(ld_context, data), after the pre
\* stage returned (its return value is not used): data is uplift_json's own
\* parameter. ld_context['@context'] raises when the record has no context
\* (TypeError) or the context document is empty.
UpliftMerge ==
    /\ up.pc = "pre"
    /\ up.i > Len(UpliftSteps)
    /\ up' = IF IsFalsy(up.ld_context)
             THEN [up EXCEPT !.pc = "failed", !.error = "ContextError"]
             ELSE [up EXCEPT !.pc = "parse",
                             !.store = Append(@, Append(up.store[RawData],
                                                        Op("merge", 0, NoValue))),
                             !.merged = Len(up.store) + 1,
                             !.trace = Append(@, Ev("merge", 0))]
    /\ UNCHANGED <<loadVars, regs, fetchLog, fulls, ret, ncalls, mergeVars>>

\* rdf_graph = Graph().parse(...): the graph the post stage starts from.
UpliftParse ==
    /\ up.pc = "parse"
    /\ up' = [up EXCEPT !.pc = "post", !.i = 1,
                        !.store = Append(@, Append(up.store[up.merged],
                                                   Op("parse", 0, NoValue))),
                        !.cur = Len(up.store) + 1,
                        !.trace = Append(@, Ev("parse", 0))]
    /\ UNCHANGED <<loadVars, regs, fetchLog, fulls, ret, ncalls, mergeVars>>

\* return _apply_uplift_steps(bblock, POST, rdf_graph)
UpliftReturn ==
    /\ up.pc = "post"
    /\ up.i > Len(UpliftSteps)
    /\ up' = [up EXCEPT !.pc = "done", !.out = up.cur]
    /\ UNCHANGED <<loadVars, regs, fetchLog, fulls, ret, ncalls, mergeVars>>

\* The import lists of the documents: the last registry imports itself and
\* its predecessor, which imports it back; the others import nothing.
UpliftImports ==
    [u \in Urls |-> IF u = NumRegs THEN <<NumRegs, NumRegs - 1>>
                    ELSE IF u = NumRegs - 1 THEN <<NumRegs>>
                    ELSE <<>>]

\* Each registry holds every identifier, every full record with the same
\* pipeline and context URL.
InitUplift ==
    /\ docs \in {[u \in Urls |-> RegisterDoc(UpliftImports[u], Ids, FullDoc(p, c))] :
                    p \in Pipelines, c \in ResUrls \cup {None}}
    /\ MergeIdle
    /\ fulls = <<>>
    /\ ret = NoCall
    /\ ncalls = 0
    /\ call = NoLoad
    /\ pc = "idle"
    /\ stack = <<>>
    /\ regs = <<>>
    /\ seen = [u \in Urls |-> None]
    /\ fetchLog = <<>>
    /\ result = None

NextUplift ==
    \/ NextLoad
    \/ \E r \in Instances, id \in Ids : get_item_full(r, id)
    \/ \E r \in Instances, id \in Ids : uplift_summary(r, id)
    \/ \E b \in 1..Len(fulls) : uplift_bblock(b)
    \/ UpliftFull
    \/ UpliftContext
    \/ UpliftSkipStep
    \/ UpliftApplyStep
    \/ UpliftStepFails
    \/ UpliftMerge
    \/ UpliftParse
    \/ UpliftReturn

SpecUplift == InitUplift /\ [][NextUplift]_vars /\ WF_vars(NextUplift)

\* ------------------------------------------------- uplift properties
IsPrefix(a, b) == Len(a) <= Len(b) /\ a = SubSeq(b, 1, Len(a))

\* The pipeline of the record the call works on.
UpPipeline == IF up.bblock = None THEN <<>> ELSE fulls[up.bblock].semantic_uplift

\* The events of the steps declared for a stage, in declaration order.
StepEvents(steps, stage) ==
    LET idx == [k \in 1..Len(steps) |-> k]
        sel == SelectSeq(idx, LAMBDA k : steps[k].stage = stage)
    IN [j \in 1..Len(sel) |-> Ev(stage, sel[j])]

\* The phases of a complete call: full record (when a summary was given),
\* context, pre steps, merge, graph, post steps.
Expected ==
    (IF up.asFull THEN <<>> ELSE <<Ev("full", 0)>>)
    \o <<Ev("context", 0)>>
    \o StepEvents(UpPipeline, "pre")
    \o <<Ev("merge", 0), Ev("parse", 0)>>
    \o StepEvents(UpPipeline, "post")

\* The step's type is none of shacl, sparql-update, sparql-construct, jq.
Unsupported(step) ==
    step.type \notin {"shacl", "sparql-update", "sparql-construct", "jq"}

\* The pipeline's only step has an unsupported type and the given stage.
OnlyUnsupported(stage) ==
    /\ Len(UpPipeline) = 1
    /\ Unsupported(UpPipeline[1])
    /\ UpPipeline[1].stage = stage

PhasesInOrder ==
    up.pc # "idle" =>
        /\ IsPrefix(up.trace, Expected)
        /\ up.pc = "done" => up.trace = Expected

FailsBeforeMerge ==
    OnlyUnsupported("pre") =>
        /\ up.pc # "done"
        /\ Ev("merge", 0) \notin Range(up.trace)
        /\ up.pc = "failed" => up.error = "NotImplementedError"

StepsApplied == {e \in Range(up.trace) : e.ev \in {"pre", "post"}}

\* C11: a step of a type outside the four known ones does not make
\* get_item_full fail (the record is built and cached); uplift fails with
\* NotImplementedError exactly when that step is applied: the step is the
\* last thing the call did, no graph is returned, and a call that returned
\* a graph applied no such step.
C11_UnsupportedFailsWhenApplied ==
    /\ (ret.op = "full" /\ GetItemSummary(regs, ret.r, ret.id) # NoSummary) =>
          /\ ret.value \in 1..Len(fulls)
          /\ LET owner == SummaryAt(regs, fulls[ret.value].summary).source_register
             IN regs[owner].bblocks_cache[ret.id] = ret.value
    /\ \A e \in StepsApplied :
          Unsupported(UpPipeline[e.k]) =>
              /\ up.pc = "failed"
              /\ up.error = "NotImplementedError"
              /\ up.out = None
              /\ up.trace[Len(up.trace)] = e
    /\ (up.pc = "failed" /\ up.error = "NotImplementedError") =>
          /\ up.trace # <<>>
          /\ up.trace[Len(up.trace)] \in StepsApplied
          /\ Unsupported(UpPipeline[up.trace[Len(up.trace)].k])
    /\ up.pc = "done" =>
          /\ up.out # None
          /\ \A e \in StepsApplied : ~Unsupported(UpPipeline[e.k])

\* An uplift of a cached full record failed at the first of two post steps,
\* the second one left unapplied.
C11_Witness ==
    /\ up.pc = "failed"
    /\ up.error = "NotImplementedError"
    /\ up.asFull
    /\ Len(UpPipeline) = 2
    /\ Unsupported(UpPipeline[1])
    /\ UpPipeline[2].stage = "post"
    /\ up.trace[Len(up.trace)] = Ev("post", 1)

\* ------------------------------------- the enumerated fields at load time
\* The enumerated fields an item, or a full-record document, may carry: all
\* in their sets, or one of them outside.
ItemVariants ==
    {[status |-> "stable", item_class |-> "schema"],
     [status |-> "draft", item_class |-> NoEnum],
     [status |-> NoEnum, item_class |-> "widget"]}
FullVariants ==
    {[status |-> "stable", item_class |-> "schema", stage |-> "pre", type |-> "jq"],
     [status |-> "draft", item_class |-> NoEnum, stage |-> "pre", type |-> "jq"],
     [status |-> NoEnum, item_class |-> "widget", stage |-> "post", type |-> "shacl"],
     [status |-> NoEnum, item_class |-> "schema", stage |-> "during", type |-> "jq"],
     [status |-> "stable", item_class |-> NoEnum, stage |-> "post", type |-> "other"]}

\* Each registry holds every identifier, with its own enumerated fields;
\* every full-record document is the same, of one step.
InitValidate ==
    /\ docs \in {[u \in Urls |->
                    RegisterDocWith(UpliftImports[u], Ids,
                        FullDocWith(<<Step(f.type, f.stage, <<"code", "inline", 0>>, None)>>,
                                    None, f.status, f.item_class),
                        item[u].status, item[u].item_class)] :
                    item \in [Urls -> ItemVariants], f \in FullVariants}
    /\ MergeIdle
    /\ fulls = <<>>
    /\ ret = NoCall
    /\ ncalls = 0
    /\ call = NoLoad
    /\ pc = "idle"
    /\ stack = <<>>
    /\ regs = <<>>
    /\ seen = [u \in Urls |-> None]
    /\ fetchLog = <<>>
    /\ result = None

NextValidate ==
    \/ NextLoad
    \/ \E r \in Instances, id \in Ids : get_item_full(r, id)

SpecValidate == InitValidate /\ [][NextValidate]_vars /\ WF_vars(NextValidate)

\* The value is missing or in the closed set.
InSet(values, v) == v = NoEnum \/ v \in values

\* The enumerated fields of a record, or of a document, that load-time
\* construction casts are all in their sets.
EnumsInSets(x) == InSet(StatusValues, x.status) /\ InSet(ItemClassValues, x.item_class)
StagesInSet(steps) == \A k \in 1..Len(steps) : steps[k].stage \in {"pre", "post"}

\* The full-record document get_item_full reads for the record ref.
FullDocOf(ref) ==
    docs[SummaryAt(regs, ref).json_full.url].bblocks[SummaryAt(regs, ref).json_full.id].full

\* Loading a document with a status, an item class or a step stage outside
\* its set fails, and no record carries such a value.
EnumsValidated ==
    /\ \A r \in Instances : \A id \in DOMAIN regs[r].bblocks :
          EnumsInSets(regs[r].bblocks[id])
    /\ \A b \in 1..Len(fulls) :
          EnumsInSets(fulls[b]) /\ StagesInSet(fulls[b].semantic_uplift)
    /\ \A k \in 1..Len(fetchLog) :
          (/\ fetchLog[k].kind = "register"
           /\ \E id \in Ids : ~EnumsInSets(docs[fetchLog[k].url].bblocks[id])) =>
              /\ pc = "failed"
              /\ result = None
              /\ k = Len(fetchLog)
              /\ seen[fetchLog[k].url] = None
    /\ (ret.op = "full" /\ GetItemSummary(regs, ret.r, ret.id) # NoSummary) =>
          LET ref == GetItemSummary(regs, ret.r, ret.id)
              doc == FullDocOf(ref)
          IN IF EnumsInSets(doc) /\ StagesInSet(doc.steps)
             THEN ret.raised = "none" /\ ret.value \in 1..Len(fulls)
             ELSE /\ ret.raised = "ValueError"
                  /\ ret.value = None
                  /\ ret.id \notin DOMAIN regs[ref[1]].bblocks_cache
                  /\ \A b \in 1..Len(fulls) : fulls[b].summary # ref

\* C12 as stated: loading fails whenever status, item class, step stage or
\* step type is outside its closed set; no record carries such a value.
C12_Original ==
    /\ EnumsValidated
    /\ \A b \in 1..Len(fulls) :
          \A k \in 1..Len(fulls[b].semantic_uplift) :
              ~Unsupported(fulls[b].semantic_uplift[k])

\* C12: loading a registry document or a full-record document fails
\* whenever a status, an item class or a step stage is outside its closed
\* set, and no record carrying such a value is constructed or cached; a
\* step type is not checked at load time: a full record whose step has a
\* type outside the four known ones is constructed and cached.
C12_EnumsValidatedAtLoad ==
    /\ EnumsValidated
    /\ \A r \in Instances : \A id \in DOMAIN regs[r].bblocks_cache :
          regs[r].bblocks_cache[id] \in 1..Len(fulls)

\* get_item_full failed on a full-record document whose step has a stage
\* outside the set.
C12_Witness ==
    /\ ret.op = "full"
    /\ ret.raised = "ValueError"
    /\ \E u \in Urls, id \in Ids : ~StagesInSet(docs[u].bblocks[id].full.steps)

\* --------------------------------------------------- loads that fail
\* yaml_loader(url) raises: _load_register fetched nothing and built nothing.
LoadFetchFails ==
    /\ pc = "loading"
    /\ Top.phase = "fetch"
    /\ fetchLog' = Append(fetchLog, FetchedRegister(Top.url))
    /\ LoadRaises("FetchError", Top.url)
    /\ UNCHANGED <<docs, call, regs, seen, result, fulls, ncalls, otherVars>>

\* Any import graph of few entries; every registry holds every identifier,
\* the items of some registries with a status outside the set.
InitLoadFail ==
    /\ docs \in {[u \in Urls |->
                    RegisterDocWith(g[u], Ids, PlainDoc,
                                    IF u \in bad THEN "draft" ELSE "stable", NoEnum)] :
                    g \in Graphs(NumRegs, MaxEdgesLookup), bad \in SUBSET Urls}
    /\ MergeIdle
    /\ fulls = <<>>
    /\ ret = NoCall
    /\ ncalls = 0
    /\ call = NoLoad
    /\ pc = "idle"
    /\ stack = <<>>
    /\ regs = <<>>
    /\ seen = [u \in Urls |-> None]
    /\ fetchLog = <<>>
    /\ result = None

NextLoadFail ==
    \/ NextLoad
    \/ LoadFetchFails

SpecLoadFail == InitLoadFail /\ [][NextLoadFail]_vars /\ WF_vars(NextLoadFail)

\* C13: when the fetch or the construction of any registry of the traversal
\* fails, the load is over with that error and returns no registry: the
\* failed fetch is the last one made (no URL is fetched again, nothing is
\* fetched after it), and a load that returned a registry met no failure.
C13_LoadFailsAsAWhole ==
    /\ ret.op = "load" =>
          /\ pc = "failed"
          /\ result = None
          /\ stack = <<>>
          /\ fetchLog[Len(fetchLog)] = FetchedRegister(ret.url)
          /\ ret.raised = "ValueError" => ~EnumsInSets(docs[ret.url].bblocks[1])
    /\ pc = "failed" => ret.op = "load"
    /\ NoDup(RegisterFetches)
    /\ pc = "done" =>
          /\ result # None
          /\ \A u \in Range(RegisterFetches) : EnumsInSets(docs[u].bblocks[1])

\* A load failed at its third registry, two levels below the root, the two
\* registries above it already built.
C13_Witness ==
    /\ pc = "failed"
    /\ Len(regs) = 2
    /\ Len(fetchLog) = 3
    /\ ret.url \notin Range(docs[call.url].imports)
    /\ ret.url # call.url

\* ---------------------------------------------- the data of the stages
\* The operations an object of the call's store went through, by name and
\* step.
History(obj) == [j \in 1..Len(obj) |-> <<obj[j].op, obj[j].k>>]

\* The operations of the steps declared for a stage, in declaration order.
StageHistory(steps, stage) ==
    LET events == StepEvents(steps, stage)
    IN [j \in 1..Len(events) |-> <<steps[events[j].k].type, events[j].k>>]

\* C14 as stated: the current data after the last pre step is what the
\* context merge receives, so the merged document, and the graph parsed from
\* it, went through every pre step's rewrite.
C14_PreResultMerged ==
    up.merged # None =>
        History(up.store[up.merged]) =
            <<<<"raw", 0>>>> \o StageHistory(UpPipeline, "pre") \o <<<<"merge", 0>>>>

\* The operations of the stage's steps that precede the loop's position.
AppliedHistory(stage) ==
    SelectSeq(StageHistory(UpPipeline, stage), LAMBDA h : h[2] < up.i)

\* C15: within a stage the loop's current data went through exactly the
\* steps tagged with the stage that precede the loop's position, in
\* declaration order, wherever the steps of the other stage stand in the
\* list: in the post stage the current graph is the parsed graph after those
\* steps (the result of a sparql-construct taking its place for the later
\* ones), and the graph uplift_json returns is the current graph after the
\* last post step.
C15_StageStepsInOrder ==
    /\ up.pc \in {"pre", "parse"} =>
          History(up.store[up.cur]) = <<<<"raw", 0>>>> \o AppliedHistory("pre")
    /\ up.pc \in {"post", "done"} =>
          History(up.store[up.cur]) =
              <<<<"raw", 0>>, <<"merge", 0>>, <<"parse", 0>>>> \o AppliedHistory("post")
    /\ up.pc = "done" =>
          /\ up.out = up.cur
          /\ AppliedHistory("post") = StageHistory(UpPipeline, "post")

\* An uplift returned the graph of a pipeline that declares a post
\* sparql-construct before a pre jq step.
C15_Witness ==
    /\ up.pc = "done"
    /\ Len(UpPipeline) = 2
    /\ UpPipeline[1].stage = "post"
    /\ UpPipeline[1].type = "sparql-construct"
    /\ UpPipeline[2].stage = "pre"

\* ------------------------------------------------ the code of the steps
\* How often fetch_url was invoked.
CodeFetches == Cardinality({k \in 1..Len(fetchLog) : fetchLog[k].kind = "code"})

\* C16: every step of the loop whose stage is the one applied, and which
\* has no inline code but a ref, invokes fetch_url for the ref exactly once,
\* whatever was fetched before; a step with inline code, and a step of the
\* other stage, invoke nothing.
C16_CodeFetchedPerApplication ==
    [][(up.pc \in {"pre", "post"} /\ up.i <= Len(UpPipeline)) =>
          LET step == UpPipeline[up.i]
          IN IF step.stage = up.pc /\ step.code = NoValue /\ step.ref # None
             THEN fetchLog' = Append(fetchLog, FetchedCode(step.ref))
             ELSE fetchLog' = fetchLog]_vars

\* Two uplift runs applied a step with a ref, and its URL was fetched twice.
C16_Witness ==
    /\ ncalls = 2
    /\ up.pc = "done"
    /\ Len(UpPipeline) = 1
    /\ UpPipeline[1].ref # None
    /\ CodeFetches = 2

\* ------------------------------------------------- shared registries
\* How often yaml_loader was invoked, through any registry, for the
\* full-record document of item id of the registry at url.
FullDocFetches(url, id) ==
    Cardinality({k \in 1..Len(fetchLog) :
        /\ fetchLog[k].kind = "bblock"
        /\ fetchLog[k].url = url
        /\ fetchLog[k].id = id})

\* C17: one load builds one registry instance per URL, and every
\* imported_registers entry is that instance; the full record of an item is
\* cached in the registry whose mapping holds the item, so get_item_full
\* through any registry that resolves the identifier to that item returns
\* the one instance, its full-record document fetched at most once in all.
C17_SharedInstanceAndCache ==
    /\ \A i, j \in Instances : i # j => regs[i].url # regs[j].url
    /\ \A r \in Instances : \A x \in Range(regs[r].imported_registers) :
          x \in Instances /\ seen[regs[x].url] = x
    /\ \A u \in Urls, id \in Ids : FullDocFetches(u, id) <= 1
    /\ \A r \in Instances : \A id \in DOMAIN regs[r].bblocks_cache :
          /\ id \in DOMAIN regs[r].bblocks
          /\ fulls[regs[r].bblocks_cache[id]].summary = <<r, id>>
    /\ (ret.op = "full" /\ ret.value # None) =>
          LET ref == GetItemSummary(regs, ret.r, ret.id)
          IN ret.value = regs[ref[1]].bblocks_cache[ret.id]

\* get_item_full through one registry returned, without a fetch, the
\* instance an earlier call through another registry had fetched.
C17_Witness ==
    /\ ret.op = "full"
    /\ ret.value # None
    /\ ~ret.fetched
    /\ \E k \in 1..Len(fetchLog) :
          /\ fetchLog[k].kind = "bblock"
          /\ fetchLog[k].via # ret.r
          /\ fetchLog[k].via = fulls[ret.value].source_register

\* ---------------------------------------------------- back-references
\* C18: the source_register of every summary record of the graph is the
\* registry whose bblocks holds it, from the moment the registry exists; the
\* BuildingBlock get_item_full returns has as summary the record the
\* identifier resolved to and as source_register that record's registry,
\* also when the call was made on another registry.
C18_BackReferences ==
    /\ \A r \in Instances : \A id \in DOMAIN regs[r].bblocks :
          /\ regs[r].bblocks[id].source_register = r
          /\ regs[r].bblocks[id].item_identifier = id
    /\ \A b \in 1..Len(fulls) :
          fulls[b].source_register = SummaryAt(regs, fulls[b].summary).source_register
    /\ (ret.op = "full" /\ ret.value # None) =>
          LET ref == GetItemSummary(regs, ret.r, ret.id)
          IN /\ fulls[ret.value].summary = ref
             /\ fulls[ret.value].source_register = ref[1]
             /\ ref[1] \in Holders(ret.id)

\* get_item_full on a registry that only imports the item's registry built
\* the full record.
C18_Witness ==
    /\ ret.op = "full"
    /\ ret.value # None
    /\ ret.fetched
    /\ ret.r \notin Holders(ret.id)
    /\ fulls[ret.value].source_register # ret.r

\* -------------------------------------------------- fetches that fail
\* What an exception of yaml_loader leaves of a cache: the assignment to
\* the cache comes after the call, so it is not reached.
CacheAfterFailurePoisoned(cache, key, empty) == (key :> empty) @@ cache
CacheAfterFailure(cache, key, empty) == cache

\* resolved_ld_context on the record of registry r under key id, the
\* context URL missing from the cache and yaml_loader raising.
resolved_ld_context_fails(r, id, url) ==
    /\ CanCall
    /\ id \in DOMAIN regs[r].bblocks
    /\ url \in ResUrls
    /\ LET owner == regs[r].bblocks[id].source_register
       IN /\ ~CacheHit(regs[owner].url_cache, url)
          /\ fetchLog' = Append(fetchLog, FetchedResource(owner, url))
          /\ regs' = [regs EXCEPT ![owner].url_cache = CacheAfterFailure(@, url, NoData)]
          /\ ret' = [op |-> "resolve", r |-> owner, url |-> url, value |-> NoData,
                     fetched |-> TRUE, raised |-> "FetchError"]
    /\ ncalls' = ncalls + 1
    /\ UNCHANGED <<loadVars, fulls, otherVars>>

\* get_item_full on registry r, the full record missing from the cache and
\* yaml_loader raising.
get_item_full_fails(r, identifier) ==
    /\ CanCall
    /\ GetItemSummary(regs, r, identifier) # NoSummary
    /\ LET summary == SummaryAt(regs, GetItemSummary(regs, r, identifier))
           owner == CacheOwner(r, summary)
       IN /\ FullCacheGet(regs[owner].bblocks_cache, identifier) = None
          /\ fetchLog' = Append(fetchLog, FetchedBBlock(r, summary.json_full.url,
                                                        summary.json_full.id))
          /\ regs' = [regs EXCEPT ![owner].bblocks_cache =
                                     CacheAfterFailure(@, identifier, None)]
          /\ ret' = [op |-> "full", r |-> r, id |-> identifier, value |-> None,
                     fetched |-> TRUE, raised |-> "FetchError"]
    /\ ncalls' = ncalls + 1
    /\ UNCHANGED <<loadVars, fulls, otherVars>>

\* The graph of the import cycle, every registry holding any subset of the
\* identifiers.
InitResolveFail ==
    /\ docs \in {[u \in Urls |-> RegisterDoc(UpliftImports[u], items[u], PlainDoc)] :
                    items \in [Urls -> SUBSET Ids]}
    /\ MergeIdle
    /\ fulls = <<>>
    /\ ret = NoCall
    /\ ncalls = 0
    /\ call = NoLoad
    /\ pc = "idle"
    /\ stack = <<>>
    /\ regs = <<>>
    /\ seen = [u \in Urls |-> None]
    /\ fetchLog = <<>>
    /\ result = None

NextResolveFail ==
    \/ NextLoad
    \/ \E r \in Instances, id \in Ids, url \in ResUrls \cup {None, EmptyString} :
          resolved_ld_context(r, id, url)
    \/ \E r \in Instances, id \in QueryIds : get_item_full(r, id)
    \/ \E r \in Instances, id \in Ids, url \in ResUrls :
          resolved_ld_context_fails(r, id, url)
    \/ \E r \in Instances, id \in QueryIds : get_item_full_fails(r, id)

SpecResolveFail == InitResolveFail /\ [][NextResolveFail]_vars /\ WF_vars(NextResolveFail)

\* The call the step made did not find its key in the cache.
Missed ==
    /\ ncalls' = ncalls + 1
    /\ \/ /\ ret'.op = "resolve"
          /\ ret'.url \in ResUrls
          /\ ret'.url \notin DOMAIN regs[ret'.r].url_cache
       \/ /\ ret'.op = "full"
          /\ GetItemSummary(regs, ret'.r, ret'.id) # NoSummary
          /\ ret'.id \notin
                DOMAIN regs[GetItemSummary(regs, ret'.r, ret'.id)[1]].bblocks_cache

\* C19: a call whose fetch failed raised that failure and left the resource
\* caches and the full-record caches of every registry as they were, no
\* entry added and none changed; every call that does not find its key in
\* the cache invokes yaml_loader, so the call after a failed one fetches
\* again.
C19_FailedFetchLeavesCaches ==
    [][/\ (ncalls' = ncalls + 1 /\ ret'.raised = "FetchError") =>
             /\ regs' = regs
             /\ fulls' = fulls
             /\ Len(fetchLog') = Len(fetchLog) + 1
             /\ ret'.op = "resolve" => ret'.value = NoData
             /\ ret'.op = "full" => ret'.value = None
       /\ Missed => (ret'.fetched /\ Len(fetchLog') = Len(fetchLog) + 1)]_vars

\* After a resolve that failed, the next resolve of the same URL through
\* the same registry fetched it again and returned the document.
C19_Witness ==
    /\ ncalls = 2
    /\ ret.op = "resolve"
    /\ ret.raised = "none"
    /\ ret.fetched
    /\ ResourceFetches(ret.r, ret.url) = 2

\* ------------------------------------------------ the caller's loader
\* Any import graph of few entries, loaded with either loader.
InitLoader ==
    /\ docs \in {[u \in Urls |-> RegisterDoc(g[u], {}, PlainDoc)] :
                    g \in Graphs(NumRegs, MaxEdgesLookup)}
    /\ MergeIdle
    /\ fulls = <<>>
    /\ ret = NoCall
    /\ ncalls = 0
    /\ call = NoLoad
    /\ pc = "idle"
    /\ stack = <<>>
    /\ regs = <<>>
    /\ seen = [u \in Urls |-> None]
    /\ fetchLog = <<>>
    /\ result = None

NextLoader ==
    \/ \E url \in Urls, deps \in BOOLEAN, yaml_loader \in Loaders :
          load_register(url, deps, yaml_loader)
    \/ LoadFetch
    \/ LoopSkip
    \/ LoopSeen
    \/ LoopRecurse
    \/ LoadReturn

SpecLoader == InitLoader /\ [][NextLoader]_vars /\ WF_vars(NextLoader)

\* C20 as stated: in a load called with a loader of the caller, every
\* activation of _load_register fetches its document through that loader,
\* and every registry of the graph has it as its yaml_loader, which its
\* later resolve and get_item_full fetches go through.
C20_LoaderPropagates ==
    call.yaml_loader # DefaultLoader =>
        /\ \A k \in 1..Len(stack) : stack[k].yaml_loader = call.yaml_loader
        /\ \A r \in Instances : regs[r].yaml_loader = call.yaml_loader

====
